---- MODULE Spec2Model ----
(***************************************************************************)
(* Authentication, lockout, session and admin route handlers of            *)
(* server/routes.ts, as a state machine.                                   *)
(*                                                                         *)
(* Every request runs in a handler slot.  A handler is an async function:  *)
(* it runs without interruption from one `await` to the next, so there is  *)
(* one action per `await` of a storage call, made of the storage call and  *)
(* of the synchronous code that follows it up to the next `await` (or up   *)
(* to the response).  The program counter of a slot names the line of the  *)
(* storage call the handler is suspended at.  bcrypt.compare and           *)
(* bcrypt.hash touch no shared state and are folded into the step that     *)
(* precedes them.  A handler that has not made its first storage call has  *)
(* had no effect and has read nothing, so a request starts with the step   *)
(* of its first storage call.                                              *)
(*                                                                         *)
(* server/storage.ts is not among the sources: the storage operations are  *)
(* modelled from the specification's data model (section 3 and 4).  Every  *)
(* storage call may throw; a call that throws changes nothing.             *)
(***************************************************************************)
EXTENDS Integers, Sequences, FiniteSets, TLC

(* ------------------------------ bounds -------------------------------- *)
\* requests started in a run
MaxStarts == 4
\* session ids the store can issue in a run
MaxSessions == 2
\* clock advances in a run
MaxTicks == 2
\* cap of the failure counter (the code lets it grow without limit)
MaxAttempts == 4

(* ------------------------- program constants --------------------------- *)
\* routes.ts:43  5 * 60 * 1000
CooldownMs == 300000
\* routes.ts:42  (user.loginAttempts || 0) >= 2
LockThreshold == 2
\* routes.ts:31  / 1000
MsPerSecond == 1000
\* routes.ts:95,105,136  req.cookies.sessionId is undefined: no cookie sent
NoCookie == 0

\* handler slots: two requests can be in flight together
Slots == {1, 2}
\* a cookie value the store never issued (ids are unguessable)
ForgedSid == MaxSessions + 1
Usernames == {"alice", "bob"}
Passwords == {"p1", "p2"}
Roles == {"Admin", "admin", "Staff", "supplier", "Manager"}
\* the clock moves by a millisecond, to the last millisecond of a cooldown,
\* or by a whole cooldown
TickSteps == {1, CooldownMs - 1, CooldownMs}

(* ------------------------------ helpers -------------------------------- *)
\* String.prototype.toLowerCase on the role strings in use
toLowerCase(s) ==
    CASE s = "Admin" -> "admin"
      [] s = "Staff" -> "staff"
      [] s = "Manager" -> "manager"
      [] OTHER -> s

\* bcrypt.hash(password, 10): a value that is not the password
Hash(p) == <<"bcrypt", p>>

\* bcrypt.compare(password, hash)
Compare(p, h) == h = Hash(p)

\* Math.ceil(ms / 1000) for an integer ms of either sign
CeilSeconds(ms) == -((-ms) \div MsPerSecond)

\* const { password: _, ...safeUser } = user
Sanitize(u) ==
    [id |-> u.id, username |-> u.username, role |-> u.role,
     loginAttempts |-> u.loginAttempts, cooldownUntil |-> u.cooldownUntil]

(* --------------------- storage (specification 3, 4) -------------------- *)
\* An optional value is a sequence of length 0 or 1.
getUserByUsername(us, name) ==
    IF name \in DOMAIN us THEN <<us[name]>> ELSE <<>>

getUser(us, id) ==
    LET m == {n \in DOMAIN us : us[n].id = id}
    IN  IF m = {} THEN <<>> ELSE <<us[CHOOSE n \in m : TRUE]>>

getAllUsers(us) == {us[n] : n \in DOMAIN us}

incrementLoginAttempts(us, name) ==
    IF name \in DOMAIN us
    THEN [us EXCEPT ![name].loginAttempts = @ + 1]
    ELSE us

resetLoginAttempts(us, name) ==
    IF name \in DOMAIN us
    THEN [us EXCEPT ![name].loginAttempts = 0]
    ELSE us

setCooldown(us, name, t) ==
    IF name \in DOMAIN us
    THEN [us EXCEPT ![name].cooldownUntil = <<t>>]
    ELSE us

\* (a store that writes the password and nothing else)
updateUserPasswordOnly(us, name, hashed) ==
    IF name \in DOMAIN us
    THEN [us EXCEPT ![name].password = hashed]
    ELSE us

\* section 3: loginAttempts resets to 0 when an admin resets the password
updateUserPassword(us, name, hashed) ==
    IF name \in DOMAIN us
    THEN [us EXCEPT ![name].password = hashed, ![name].loginAttempts = 0]
    ELSE us

\* section 4.1 register: the new record, loginAttempts = 0, no cooldown
NewUser(us, name, pw, role) ==
    [id |-> Cardinality(DOMAIN us) + 1, username |-> name,
     password |-> Hash(pw), role |-> role,
     loginAttempts |-> 0, cooldownUntil |-> <<>>]

registerUser(us, name, pw, role) ==
    [n \in DOMAIN us \cup {name} |->
        IF n = name THEN NewUser(us, name, pw, role) ELSE us[n]]

getSession(ss, sid) ==
    IF sid \in DOMAIN ss THEN <<[id |-> sid, userId |-> ss[sid]]>> ELSE <<>>

createSession(ss, sid, userId) ==
    [s \in DOMAIN ss \cup {sid} |-> IF s = sid THEN userId ELSE ss[s]]

deleteSession(ss, sid) ==
    [s \in DOMAIN ss \ {sid} |-> ss[s]]

\* section 4.2 resolveActor: the session lookup, then the user lookup
\* (routes.ts:108-111)
resolveActor(ss, us, sid) ==
    IF getSession(ss, sid) = <<>> THEN <<>>
    ELSE getUser(us, getSession(ss, sid)[1].userId)

(* ------------------------------- state --------------------------------- *)
VARIABLES
    users,      \* credential store: username -> user record
    sessions,   \* session store: session id -> userId
    nextSid,    \* the next session id the store generates
    now,        \* the clock, in milliseconds
    ticks,      \* clock advances so far
    started,    \* requests started so far
    req         \* handler slot -> the request's inputs, locals and response

vars == <<users, sessions, nextSid, now, ticks, started, req>>

Idle ==
    [kind |-> "idle", pc |-> "idle", cookie |-> NoCookie,
     username |-> "", password |-> "", role |-> "",
     user |-> <<>>, session |-> <<>>, isValid |-> <<>>,
     cooldownUntil |-> <<>>, err |-> "",
     status |-> 0, message |-> "", body |-> {}, remaining |-> <<>>,
     cookieOut |-> <<>>]

InitUsers ==
    [n \in {"alice"} |->
        [id |-> 1, username |-> "alice", password |-> Hash("p1"),
         role |-> "Admin", loginAttempts |-> 0, cooldownUntil |-> <<>>]]

Init ==
    /\ users = InitUsers
    /\ sessions = << >>
    /\ nextSid = 1
    /\ now = 0
    /\ ticks = 0
    /\ started = 0
    /\ req = [r \in Slots |-> Idle]

(* ----------------------------- the handlers ---------------------------- *)
Finished(r) == req[r].pc \in {"idle", "done", "escaped"}
InFlight(r) == ~Finished(r)

\* no handler has a response waiting to be delivered
Quiet == \A r \in Slots : req[r].pc \notin {"done", "escaped"}

\* a request takes the lowest free slot
CanStart(r) ==
    /\ Quiet
    /\ started < MaxStarts
    /\ req[r].pc = "idle"
    /\ \A q \in Slots : q < r => InFlight(q)

\* the handler in slot r is suspended at the storage call of line pc
At(r, kind, pc) == Quiet /\ req[r].kind = kind /\ req[r].pc = pc

\* res.status(s).json({message: m}) and return
Respond(q, s, m) == [q EXCEPT !.pc = "done", !.status = s, !.message = m]

(* -------------------------------- login -------------------------------- *)
\* routes.ts:67-70  the handler's catch block
LoginCatch(q, e) ==
    [Respond(q, 400, "Invalid request data") EXCEPT !.err = e]

\* (slip: the account still locked at the instant the cooldown ends)
InCooldownInclusive(u, t) == u.cooldownUntil # <<>> /\ u.cooldownUntil[1] >= t

\* (slip: the comparison turned round)
InCooldownTurned(u, t) == u.cooldownUntil # <<>> /\ u.cooldownUntil[1] < t

\* routes.ts:30  user.cooldownUntil && user.cooldownUntil > new Date()
InCooldown(u, t) == u.cooldownUntil # <<>> /\ u.cooldownUntil[1] > t

\* (slip: the threshold tested with === instead of >=)
MustLockOnce(u) == u.loginAttempts = LockThreshold

\* (slip: the threshold tested as if on the count after the increment)
MustLockLate(u) == u.loginAttempts >= LockThreshold + 1

\* routes.ts:42  (user.loginAttempts || 0) >= 2
MustLock(u) == u.loginAttempts >= LockThreshold

\* (slip: an unknown username answered differently from a wrong password)
LoginAfterReadLeaks(q, u, t) ==
    IF u = <<>> THEN Respond(q, 404, "User not found")
    ELSE IF u[1].cooldownUntil # <<>> /\ u[1].cooldownUntil[1] > t
         THEN [q EXCEPT !.user = u, !.pc = "l31"]
    ELSE IF ~Compare(q.password, u[1].password)
         THEN [q EXCEPT !.user = u, !.isValid = <<FALSE>>, !.pc = "l40"]
    ELSE [q EXCEPT !.user = u, !.isValid = <<TRUE>>, !.pc = "l54"]

\* routes.ts:28-54  what the handler does with the record u read at line 27,
\* at time t: absent -> 401; in cooldown -> the 429 branch; otherwise
\* bcrypt.compare, then the call of line 40 or of line 54
LoginAfterRead(q, u, t) ==
    IF u = <<>> THEN Respond(q, 401, "Invalid credentials")
    ELSE IF InCooldown(u[1], t)
         THEN [q EXCEPT !.user = u, !.pc = "l31"]
    ELSE IF ~Compare(q.password, u[1].password)
         THEN [q EXCEPT !.user = u, !.isValid = <<FALSE>>, !.pc = "l40"]
    ELSE [q EXCEPT !.user = u, !.isValid = <<TRUE>>, !.pc = "l54"]

\* routes.ts:24-38  loginSchema.parse(req.body), getUserByUsername
LoginStart(r) ==
    /\ CanStart(r)
    /\ \E name \in Usernames \cup {""}, pw \in Passwords \cup {""}, ok \in BOOLEAN :
         LET q == [Idle EXCEPT !.kind = "login", !.username = name, !.password = pw]
         IN  req' = [req EXCEPT ![r] =
                 IF name = "" \/ pw = "" THEN LoginCatch(q, "zod")
                 ELSE IF ~ok THEN LoginCatch(q, "store")
                 ELSE LoginAfterRead(q, getUserByUsername(users, name), now)]
    /\ started' = started + 1
    /\ UNCHANGED <<users, sessions, nextSid, now, ticks>>

\* routes.ts:31-35  Date.now() is read again for the remaining seconds
LoginLocked(r) ==
    /\ At(r, "login", "l31")
    /\ LET q == req[r]
       IN  req' = [req EXCEPT ![r] =
               [Respond(q, 429, "Account temporarily locked. Try again later.")
                   EXCEPT !.remaining =
                       <<CeilSeconds(q.user[1].cooldownUntil[1] - now)>>]]
    /\ UNCHANGED <<users, sessions, nextSid, now, ticks, started>>

\* routes.ts:42-51  after the increment: the threshold is tested on the
\* record read at line 27; the lock's end is computed from the clock
LoginAfterIncrement(q, t) ==
    IF MustLock(q.user[1])
    THEN [q EXCEPT !.cooldownUntil = <<t + CooldownMs>>, !.pc = "l44"]
    ELSE Respond(q, 401, "Invalid credentials")

\* routes.ts:40-51
LoginIncrement(r) ==
    /\ At(r, "login", "l40")
    /\ \E ok \in BOOLEAN :
         LET q == req[r]
         IN  IF ~ok
             THEN /\ req' = [req EXCEPT ![r] = LoginCatch(q, "store")]
                  /\ users' = users
             ELSE /\ users[q.username].loginAttempts < MaxAttempts
                  /\ users' = incrementLoginAttempts(users, q.username)
                  /\ req' = [req EXCEPT ![r] = LoginAfterIncrement(q, now)]
    /\ UNCHANGED <<sessions, nextSid, now, ticks, started>>

\* routes.ts:44-48
LoginSetCooldown(r) ==
    /\ At(r, "login", "l44")
    /\ \E ok \in BOOLEAN :
         LET q == req[r]
         IN  IF ~ok
             THEN /\ req' = [req EXCEPT ![r] = LoginCatch(q, "store")]
                  /\ users' = users
             ELSE /\ users' = setCooldown(users, q.username, q.cooldownUntil[1])
                  /\ req' = [req EXCEPT ![r] = Respond(q, 429,
                        "Too many failed attempts. Account locked for 5 minutes.")]
    /\ UNCHANGED <<sessions, nextSid, now, ticks, started>>

\* (slip: line 54 left out)
LoginResetSkipped(r) ==
    /\ At(r, "login", "l54")
    /\ req' = [req EXCEPT ![r] = [req[r] EXCEPT !.pc = "l55"]]
    /\ UNCHANGED <<users, sessions, nextSid, now, ticks, started>>

\* routes.ts:54-55  the counter is reset, then createSession is called
LoginReset(r) ==
    /\ At(r, "login", "l54")
    /\ \E ok \in BOOLEAN :
         LET q == req[r]
         IN  IF ~ok
             THEN /\ req' = [req EXCEPT ![r] = LoginCatch(q, "store")]
                  /\ users' = users
             ELSE /\ users' = resetLoginAttempts(users, q.username)
                  /\ req' = [req EXCEPT ![r] = [q EXCEPT !.pc = "l55"]]
    /\ UNCHANGED <<sessions, nextSid, now, ticks, started>>

\* (slip: a session id that was issued before is issued again)
LoginCreateSessionReusesId(r) ==
    /\ At(r, "login", "l55")
    /\ \E ok \in BOOLEAN :
         LET q == req[r]
         IN  IF ~ok
             THEN /\ req' = [req EXCEPT ![r] = LoginCatch(q, "store")]
                  /\ UNCHANGED <<sessions, nextSid>>
             ELSE /\ nextSid <= MaxSessions
                  /\ sessions' = createSession(sessions, 1, q.user[1].id)
                  /\ nextSid' = nextSid + 1
                  /\ req' = [req EXCEPT ![r] =
                        [Respond(q, 200, "") EXCEPT
                            !.session = getSession(sessions', 1),
                            !.cookieOut = <<1>>,
                            !.body = {Sanitize(q.user[1])}]]
    /\ UNCHANGED <<users, now, ticks, started>>

\* routes.ts:55-66  the session is stored, the cookie set, 200 {user, session}
LoginCreateSession(r) ==
    /\ At(r, "login", "l55")
    /\ \E ok \in BOOLEAN :
         LET q == req[r]
         IN  IF ~ok
             THEN /\ req' = [req EXCEPT ![r] = LoginCatch(q, "store")]
                  /\ UNCHANGED <<sessions, nextSid>>
             ELSE /\ nextSid <= MaxSessions
                  /\ sessions' = createSession(sessions, nextSid, q.user[1].id)
                  /\ nextSid' = nextSid + 1
                  /\ req' = [req EXCEPT ![r] =
                        [Respond(q, 200, "") EXCEPT
                            !.session = getSession(sessions', nextSid),
                            !.cookieOut = <<nextSid>>,
                            !.body = {Sanitize(q.user[1])}]]
    /\ UNCHANGED <<users, now, ticks, started>>

Login(r) ==
    \/ LoginStart(r)
    \/ LoginLocked(r)
    \/ LoginIncrement(r)
    \/ LoginSetCooldown(r)
    \/ LoginReset(r)
    \/ LoginCreateSession(r)

(* ------------------------------ register ------------------------------- *)
\* (slip: the stored record returned as it is)
RegisteredUnsanitized(q, u) ==
    [Respond(q, 201, "") EXCEPT !.user = <<u>>, !.body = {u}]

\* routes.ts:79-80  201 {user: safeUser}
Registered(q, u) ==
    [Respond(q, 201, "") EXCEPT !.user = <<u>>, !.body = {Sanitize(u)}]

\* routes.ts:74-91  registerSchema.parse(req.body), registerUser; the store
\* throws "Username already exists" for a taken name (409); a ZodError and any
\* other error are answered 400.  The body's role and password are used only
\* in the record that is created, so other outcomes do not record them.
Register(r) ==
    /\ CanStart(r)
    /\ \E name \in Usernames \cup {""}, pw \in {"p1"}, role \in Roles, ok \in BOOLEAN :
         LET q == [Idle EXCEPT !.kind = "register", !.username = name]
         IN  IF name = ""
             THEN /\ req' = [req EXCEPT ![r] =
                        [Respond(q, 400, "Invalid request data") EXCEPT !.err = "zod"]]
                  /\ users' = users
             ELSE IF ~ok
             THEN /\ req' = [req EXCEPT ![r] =
                        [Respond(q, 400, "Invalid request") EXCEPT !.err = "store"]]
                  /\ users' = users
             ELSE IF name \in DOMAIN users
             THEN /\ req' = [req EXCEPT ![r] =
                        [Respond(q, 409, "Username already exists")
                            EXCEPT !.err = "Username already exists"]]
                  /\ users' = users
             ELSE /\ users' = registerUser(users, name, pw, role)
                  /\ req' = [req EXCEPT ![r] =
                        Registered([q EXCEPT !.password = pw, !.role = role],
                                   users'[name])]
    /\ started' = started + 1
    /\ UNCHANGED <<sessions, nextSid, now, ticks>>

(* ------------------------------- logout -------------------------------- *)
\* the cookie values a client can send: none, an id the store has issued,
\* or a value the store never issued
Cookies == {NoCookie, ForgedSid} \cup 1..(nextSid - 1)

\* routes.ts:97-98  res.clearCookie("sessionId"), then 200
LoggedOut(q) ==
    [Respond(q, 200, "Logged out successfully") EXCEPT !.cookieOut = <<NoCookie>>]

\* (slip: line 96 left out)
LogoutKeepsSession(r) ==
    /\ CanStart(r)
    /\ \E c \in Cookies :
         req' = [req EXCEPT ![r] =
             LoggedOut([Idle EXCEPT !.kind = "logout", !.cookie = c])]
    /\ started' = started + 1
    /\ UNCHANGED <<users, sessions, nextSid, now, ticks>>

\* (slip: the session looked up first, as the admin routes do, and a cookie
\* whose session is not in the store refused)
LogoutRequiresSession(r) ==
    /\ CanStart(r)
    /\ \E c \in Cookies, ok \in BOOLEAN :
         LET q == [Idle EXCEPT !.kind = "logout", !.cookie = c]
         IN  IF c = NoCookie
             THEN /\ req' = [req EXCEPT ![r] = LoggedOut(q)]
                  /\ sessions' = sessions
             ELSE IF ~ok
             THEN /\ req' = [req EXCEPT ![r] =
                        [q EXCEPT !.pc = "escaped", !.err = "store"]]
                  /\ sessions' = sessions
             ELSE IF getSession(sessions, c) = <<>>
             THEN /\ req' = [req EXCEPT ![r] = Respond(q, 401, "Invalid session")]
                  /\ sessions' = sessions
             ELSE /\ sessions' = deleteSession(sessions, c)
                  /\ req' = [req EXCEPT ![r] = LoggedOut(q)]
    /\ started' = started + 1
    /\ UNCHANGED <<users, nextSid, now, ticks>>

\* routes.ts:94-99  without a cookie the handler answers at once.  The
\* handler has no try/catch: when deleteSession throws, the rejection leaves
\* the handler and the handler sends no response
Logout(r) ==
    /\ CanStart(r)
    /\ \E c \in Cookies, ok \in BOOLEAN :
         LET q == [Idle EXCEPT !.kind = "logout", !.cookie = c]
         IN  IF c = NoCookie
             THEN /\ req' = [req EXCEPT ![r] = LoggedOut(q)]
                  /\ sessions' = sessions
             ELSE IF ~ok
             THEN /\ req' = [req EXCEPT ![r] =
                        [q EXCEPT !.pc = "escaped", !.err = "store"]]
                  /\ sessions' = sessions
             ELSE /\ sessions' = deleteSession(sessions, c)
                  /\ req' = [req EXCEPT ![r] = LoggedOut(q)]
    /\ started' = started + 1
    /\ UNCHANGED <<users, nextSid, now, ticks>>

(* ---------------------------- admin routes ----------------------------- *)
\* routes.ts:128-131 and 153-156  the admin handlers' catch block
AdminCatch(q) == [Respond(q, 500, "Server error") EXCEPT !.err = "store"]

\* (slip: the role compared without toLowerCase)
NotAdminCaseSensitive(u) == u = <<>> \/ u[1].role # "admin"

\* routes.ts:112,143  !adminUser || adminUser.role.toLowerCase() !== "admin"
NotAdmin(u) == u = <<>> \/ toLowerCase(u[1].role) # "admin"

\* routes.ts:105-111,136-142  no cookie: 401; the session of the cookie is
\* read; not in the store: 401; otherwise getUser is called
AdminGetSession(q, ok, nextPc) ==
    IF q.cookie = NoCookie THEN Respond(q, 401, "Unauthorized")
    ELSE IF ~ok THEN AdminCatch(q)
    ELSE IF getSession(sessions, q.cookie) = <<>>
         THEN Respond(q, 401, "Invalid session")
    ELSE [q EXCEPT !.session = getSession(sessions, q.cookie), !.pc = nextPc]

\* routes.ts:116-117  !username || !newPassword
MissingField(q) == q.username = "" \/ q.password = ""

\* (slip: the body checked before the role)
ResetAfterUserFieldsFirst(q, u, name, pw) ==
    LET b == [q EXCEPT !.user = u, !.username = name, !.password = pw]
    IN  IF MissingField(b)
        THEN Respond(b, 400, "Username and newPassword required")
        ELSE IF NotAdmin(u)
             THEN [Respond(q, 403, "Access denied") EXCEPT !.user = u]
        ELSE [b EXCEPT !.pc = "l121"]

\* routes.ts:112-121  403 unless the acting user u is an admin; then the body
\* {username: name, newPassword: pw} is read: 400 when a field is missing;
\* otherwise getUserByUsername is called
ResetAfterUser(q, u, name, pw) ==
    LET b == [q EXCEPT !.user = u, !.username = name, !.password = pw]
    IN  IF NotAdmin(u) THEN [Respond(q, 403, "Access denied") EXCEPT !.user = u]
        ELSE IF MissingField(b)
             THEN Respond(b, 400, "Username and newPassword required")
        ELSE [b EXCEPT !.pc = "l121"]

\* routes.ts:103-111
ResetStart(r) ==
    /\ CanStart(r)
    /\ \E c \in Cookies, ok \in BOOLEAN :
         LET q == [Idle EXCEPT !.kind = "reset", !.cookie = c]
         IN  req' = [req EXCEPT ![r] = AdminGetSession(q, ok, "l111")]
    /\ started' = started + 1
    /\ UNCHANGED <<users, sessions, nextSid, now, ticks>>

\* routes.ts:111-121
ResetGetUser(r) ==
    /\ At(r, "reset", "l111")
    /\ \E name \in Usernames \cup {""}, pw \in {"", "p2"}, ok \in BOOLEAN :
         LET q == req[r]
         IN  req' = [req EXCEPT ![r] =
                 IF ~ok THEN AdminCatch(q)
                 ELSE ResetAfterUser(q, getUser(users, q.session[1].userId),
                                     name, pw)]
    /\ UNCHANGED <<users, sessions, nextSid, now, ticks, started>>

\* routes.ts:121-125  404 when the target is absent; otherwise bcrypt.hash and
\* the call of updateUserPassword
ResetGetTarget(r) ==
    /\ At(r, "reset", "l121")
    /\ \E ok \in BOOLEAN :
         LET q == req[r]
         IN  req' = [req EXCEPT ![r] =
                 IF ~ok THEN AdminCatch(q)
                 ELSE IF getUserByUsername(users, q.username) = <<>>
                      THEN Respond(q, 404, "User not found")
                 ELSE [q EXCEPT !.pc = "l125"]]
    /\ UNCHANGED <<users, sessions, nextSid, now, ticks, started>>

\* routes.ts:124-127  the hashed password is stored, 200
ResetUpdate(r) ==
    /\ At(r, "reset", "l125")
    /\ \E ok \in BOOLEAN :
         LET q == req[r]
         IN  IF ~ok
             THEN /\ req' = [req EXCEPT ![r] = AdminCatch(q)]
                  /\ users' = users
             ELSE /\ users' = updateUserPassword(users, q.username, Hash(q.password))
                  /\ req' = [req EXCEPT ![r] = Respond(q, 200, "Password reset")]
    /\ UNCHANGED <<sessions, nextSid, now, ticks, started>>

ResetPassword(r) ==
    \/ ResetStart(r)
    \/ ResetGetUser(r)
    \/ ResetGetTarget(r)
    \/ ResetUpdate(r)

\* (slip: the role compared without toLowerCase)
ListedCaseSensitive(u) == u.role \in {"staff", "supplier"}

\* routes.ts:149  ["staff", "supplier"].includes(u.role.toLowerCase())
Listed(u) == toLowerCase(u.role) \in {"staff", "supplier"}

\* routes.ts:148-150  filter, then map to the record without its password
Sanitized(all) == {Sanitize(u) : u \in {v \in all : Listed(v)}}

\* routes.ts:143-147  403 unless the acting user u is an admin; otherwise
\* getAllUsers is called
AccountsAfterUser(q, u) ==
    IF NotAdmin(u) THEN [Respond(q, 403, "Access denied") EXCEPT !.user = u]
    ELSE [q EXCEPT !.user = u, !.pc = "l147"]

\* routes.ts:134-142
AccountsStart(r) ==
    /\ CanStart(r)
    /\ \E c \in Cookies, ok \in BOOLEAN :
         LET q == [Idle EXCEPT !.kind = "accounts", !.cookie = c]
         IN  req' = [req EXCEPT ![r] = AdminGetSession(q, ok, "l142")]
    /\ started' = started + 1
    /\ UNCHANGED <<users, sessions, nextSid, now, ticks>>

\* routes.ts:142-147
AccountsGetUser(r) ==
    /\ At(r, "accounts", "l142")
    /\ \E ok \in BOOLEAN :
         LET q == req[r]
         IN  req' = [req EXCEPT ![r] =
                 IF ~ok THEN AdminCatch(q)
                 ELSE AccountsAfterUser(q, getUser(users, q.session[1].userId))]
    /\ UNCHANGED <<users, sessions, nextSid, now, ticks, started>>

\* routes.ts:147-152  200 with the sanitized staff and supplier accounts
AccountsGetAll(r) ==
    /\ At(r, "accounts", "l147")
    /\ \E ok \in BOOLEAN :
         LET q == req[r]
         IN  req' = [req EXCEPT ![r] =
                 IF ~ok THEN AdminCatch(q)
                 ELSE [Respond(q, 200, "") EXCEPT
                          !.body = Sanitized(getAllUsers(users))]]
    /\ UNCHANGED <<users, sessions, nextSid, now, ticks, started>>

Accounts(r) ==
    \/ AccountsStart(r)
    \/ AccountsGetUser(r)
    \/ AccountsGetAll(r)

(* ------------------------------ the system ----------------------------- *)
\* some cooldown end is stored or held by a handler
TimeInUse ==
    \/ \E n \in DOMAIN users : users[n].cooldownUntil # <<>>
    \/ \E r \in Slots : req[r].cooldownUntil # <<>>

\* the clock advances.  The clock is only ever compared with cooldown ends
\* computed from it, so its origin is arbitrary: time that passes while no
\* cooldown end exists is absorbed in the origin.
Tick ==
    /\ Quiet
    /\ TimeInUse
    /\ ticks < MaxTicks
    /\ \E d \in TickSteps : now' = now + d
    /\ ticks' = ticks + 1
    /\ UNCHANGED <<users, sessions, nextSid, started, req>>

\* the response reaches the client (or, for a handler that never answers, the
\* connection is dropped) and the slot is free again
Retire(r) ==
    /\ req[r].pc \in {"done", "escaped"}
    /\ req' = [req EXCEPT ![r] = Idle]
    /\ UNCHANGED <<users, sessions, nextSid, now, ticks, started>>

\* A finished handler takes no further part in the run, so its slot is freed
\* before anything else moves (every other action requires Quiet): freeing it
\* commutes with every other step.
Next ==
    \/ \E r \in Slots : Login(r)
    \/ \E r \in Slots : Register(r)
    \/ \E r \in Slots : Logout(r)
    \/ \E r \in Slots : ResetPassword(r)
    \/ \E r \in Slots : Accounts(r)
    \/ \E r \in Slots : Retire(r)
    \/ Tick

Spec == Init /\ [][Next]_vars

\* Requests one after another: a request starts when the one before it has
\* been answered, so only the first slot is ever used.
SeqNext ==
    \/ Login(1)
    \/ Register(1)
    \/ Logout(1)
    \/ ResetPassword(1)
    \/ Accounts(1)
    \/ Retire(1)
    \/ Tick

SeqSpec == Init /\ [][SeqNext]_vars

(* ============================ the claims =============================== *)
\* In a step, slot r starts a request of the given kind.
Starts(r, kind) == req[r].pc = "idle" /\ req'[r].kind = kind

\* In a step, the handler in slot r, suspended at line pc, runs.
Runs(r, kind, pc) == At(r, kind, pc) /\ req'[r] # req[r]

\* The handler in slot r has answered with status s.
Answered(r, kind, s) ==
    req[r].kind = kind /\ req[r].pc = "done" /\ req[r].status = s

\* The account u is locked at time t: its cooldownUntil is later than t.
LockedAt(u, t) == u.cooldownUntil # <<>> /\ u.cooldownUntil[1] > t

(* ------------------------------- C1 ------------------------------------ *)
\* a login for an existing user starts, no fault: with a wrong password on an
\* unlocked account the password is compared and the increment called; on
\* a locked account the password is not compared
C1Start(r) ==
    LET p == req'[r]
    IN  (Starts(r, "login") /\ p.err = "" /\ p.username \in DOMAIN users) =>
          LET u == users[p.username]
          IN  /\ (~LockedAt(u, now) /\ ~Compare(p.password, u.password)) =>
                    (p.pc = "l40" /\ p.isValid = <<FALSE>>)
              /\ LockedAt(u, now) => (p.pc = "l31" /\ p.isValid = <<>>)

\* the increment of a wrong-password login that follows n earlier failures
\* (nothing has touched the record since the handler read it)
C1Increment(r) ==
    LET q == req[r]
        p == req'[r]
    IN  (Runs(r, "login", "l40") /\ p.err = "" /\ users[q.username] = q.user[1]) =>
          LET n == users[q.username].loginAttempts
          IN  /\ users'[q.username].loginAttempts = n + 1
              /\ n \in {0, 1} =>
                    /\ p.pc = "done" /\ p.status = 401
                    /\ p.message = "Invalid credentials"
                    /\ users'[q.username].cooldownUntil = users[q.username].cooldownUntil
              /\ n = 2 =>
                    /\ p.pc = "l44"
                    /\ p.cooldownUntil = <<now + CooldownMs>>

\* the third failure stores the cooldown and answers 429
C1SetCooldown(r) ==
    LET q == req[r]
        p == req'[r]
    IN  (Runs(r, "login", "l44") /\ p.err = "") =>
          /\ p.pc = "done" /\ p.status = 429
          /\ users'[q.username].cooldownUntil = q.cooldownUntil
          /\ users'[q.username].loginAttempts = users[q.username].loginAttempts

\* the request made during the cooldown answers 429, password not compared
C1Locked(r) ==
    LET p == req'[r]
    IN  Runs(r, "login", "l31") =>
          (p.pc = "done" /\ p.status = 429 /\ p.isValid = <<>>)

\* C1: from loginAttempts = 0 and no cooldown, consecutive wrong-password
\* logins of an existing user: the 1st and 2nd (0 and 1 earlier failures)
\* answer 401 "Invalid credentials" and add one to loginAttempts; the 3rd
\* (2 earlier failures) adds one, sets cooldownUntil to the clock + 5 minutes
\* and answers 429; a request that finds the cooldown in the future answers
\* 429 and never compares the password.
C1_ThreeStrikes ==
    [][\A r \in Slots :
          C1Start(r) /\ C1Increment(r) /\ C1SetCooldown(r) /\ C1Locked(r)]_vars

\* the 4th request has been answered 429 from the cooldown branch, after
\* exactly three recorded failures
C1_Witness ==
    \E r \in Slots :
        /\ Answered(r, "login", 429)
        /\ req[r].remaining # <<>>
        /\ req[r].isValid = <<>>
        /\ users[req[r].username].loginAttempts = 3
        /\ LockedAt(users[req[r].username], now)

(* ------------------------------- C2 ------------------------------------ *)
\* C2: a login that finds the user's cooldownUntil later than the clock is
\* answered 429 whatever its password, and neither of its steps changes the
\* user records or the sessions.
C2_LockedRejectsAll ==
    [][\A r \in Slots :
          LET p == req'[r]
          IN  /\ (/\ Starts(r, "login") /\ p.err = ""
                   /\ p.username \in DOMAIN users
                   /\ LockedAt(users[p.username], now)) =>
                     (p.pc = "l31" /\ users' = users /\ sessions' = sessions)
              /\ Runs(r, "login", "l31") =>
                     /\ p.pc = "done" /\ p.status = 429
                     /\ users' = users /\ sessions' = sessions]_vars

\* a locked account has rejected the correct password
C2_Witness ==
    \E r \in Slots :
        /\ Answered(r, "login", 429)
        /\ req[r].remaining # <<>>
        /\ Compare(req[r].password, users[req[r].username].password)
        /\ users[req[r].username] = req[r].user[1]

(* ------------------------------- C3 ------------------------------------ *)
\* what the handler holds of the gate: its cookie's session, that session's
\* user, and the admin role
C3Gate(q) ==
    /\ q.cookie # NoCookie
    /\ q.session # <<>> /\ q.session[1].id = q.cookie
    /\ q.user # <<>> /\ q.user[1].id = q.session[1].userId
    /\ toLowerCase(q.user[1].role) = "admin"

\* the two steps of the gate in slot r
C3Checks(r) ==
    LET q == req[r]
        p == req'[r]
    IN  /\ ((Starts(r, "reset") \/ Starts(r, "accounts")) /\ p.pc # "done") =>
              /\ p.cookie \in DOMAIN sessions
              /\ p.session = <<[id |-> p.cookie, userId |-> sessions[p.cookie]]>>
        /\ ((Runs(r, "reset", "l111") \/ Runs(r, "accounts", "l142")) /\ p.err = "") =>
              LET a == getUser(users, q.session[1].userId)
              IN  /\ (a # <<>> /\ a[1].role = "Staff") =>
                        (p.pc = "done" /\ p.status = 403)
                  /\ (a # <<>> /\ a[1].role \in {"Admin", "admin"}) =>
                        (p.status # 403 /\ p.user = a)
                  /\ p.status # 403 =>
                        (a # <<>> /\ toLowerCase(a[1].role) = "admin" /\ p.user = a)

\* C3: a user's password changes only in the update step of a reset-password
\* handler, and the account list is answered only by an accounts handler,
\* that holds a cookie whose session it found in the store and whose user's
\* lower-cased role is "admin"; an acting user of role "Staff" is answered
\* 403, one of role "Admin" or "admin" passes the gate.
C3_AdminOnly ==
    [][/\ \A n \in DOMAIN users :
             users'[n].password # users[n].password =>
                 \E r \in Slots : /\ Runs(r, "reset", "l125")
                                  /\ req[r].username = n
                                  /\ C3Gate(req[r])
       /\ \A r \in Slots :
             /\ (req'[r].kind = "accounts" /\ req'[r].status = 200) =>
                    (Runs(r, "accounts", "l147") /\ C3Gate(req[r]))
             /\ C3Checks(r)]_vars

\* an actor registered with the role "admin" has reset a password
C3_Witness ==
    \E r \in Slots :
        /\ Answered(r, "reset", 200)
        /\ req[r].user[1].role = "admin"
        /\ users[req[r].username].password = Hash(req[r].password)

(* ------------------------------- C4 ------------------------------------ *)
\* C4: a session appears in the store only in the last step of a login
\* answered 200, and it resolves to the user whose name the login carried;
\* as long as it is in the store it resolves to that same user; a logout
\* answered 200 leaves its cookie's id unresolved, an id once removed is
\* never in the store again, and an admin endpoint called with an id that
\* does not resolve answers 401.
C4_SessionResolves ==
    [][/\ \A sid \in DOMAIN sessions' :
             IF sid \in DOMAIN sessions
             THEN /\ resolveActor(sessions', users', sid) # <<>>
                  /\ resolveActor(sessions', users', sid)[1].username =
                         resolveActor(sessions, users, sid)[1].username
             ELSE \E r \in Slots :
                     /\ Runs(r, "login", "l55")
                     /\ req'[r].status = 200
                     /\ req'[r].session # <<>> /\ req'[r].session[1].id = sid
                     /\ Compare(req[r].password, req[r].user[1].password)
                     /\ resolveActor(sessions', users', sid) =
                            <<users'[req[r].username]>>
       /\ \A sid \in 1..(nextSid - 1) :
             sid \notin DOMAIN sessions => sid \notin DOMAIN sessions'
       /\ \A r \in Slots :
             /\ (Starts(r, "logout") /\ req'[r].status = 200) =>
                    resolveActor(sessions', users', req'[r].cookie) = <<>>
             /\ (/\ Starts(r, "reset") \/ Starts(r, "accounts")
                 /\ req'[r].err = ""
                 /\ resolveActor(sessions, users, req'[r].cookie) = <<>>) =>
                    (req'[r].pc = "done" /\ req'[r].status = 401)]_vars

\* an admin endpoint has answered 401 to an id that a login issued and a
\* logout removed
C4_Witness ==
    \E r \in Slots :
        /\ req[r].kind \in {"reset", "accounts"}
        /\ req[r].pc = "done" /\ req[r].status = 401
        /\ req[r].cookie \in 1..(nextSid - 1)
        /\ req[r].cookie \notin DOMAIN sessions

(* ------------------------------- C5 ------------------------------------ *)
\* C5: the step in which an admin password reset answered 200 stores the
\* new password and leaves the target's loginAttempts at 0, as the reset
\* step of a successful login does.
C5_ResetClearsAttempts ==
    [][\A r \in Slots :
          LET q == req[r]
              p == req'[r]
          IN  /\ (Runs(r, "reset", "l125") /\ p.status = 200) =>
                    /\ users'[q.username].loginAttempts = 0
                    /\ users'[q.username].password = Hash(q.password)
              /\ (Runs(r, "login", "l54") /\ p.err = "") =>
                    users'[q.username].loginAttempts = 0]_vars

\* an admin has reset the password of another user
C5_Witness ==
    \E r \in Slots :
        /\ Answered(r, "reset", 200)
        /\ req[r].user[1].username # req[r].username
        /\ users[req[r].username].loginAttempts = 0
        /\ users[req[r].username].password = Hash(req[r].password)

(* ------------------------------- C6 ------------------------------------ *)
\* C6 (requests one after another, so that no other request is in flight):
\* a login with the correct password for an existing user that is not locked
\* and has fewer than 3 recorded failures passes the password check, resets
\* loginAttempts to 0 and answers 200 with loginAttempts still 0.
C6_SuccessResets ==
    [][\A r \in Slots :
          LET q == req[r]
              p == req'[r]
          IN  /\ (/\ Starts(r, "login") /\ p.err = ""
                   /\ p.username \in DOMAIN users
                   /\ ~LockedAt(users[p.username], now)
                   /\ users[p.username].loginAttempts < 3
                   /\ Compare(p.password, users[p.username].password)) =>
                     (p.pc = "l54" /\ p.isValid = <<TRUE>>)
              /\ (Runs(r, "login", "l54") /\ p.err = "") =>
                     (p.pc = "l55" /\ users'[q.username].loginAttempts = 0)
              /\ (Runs(r, "login", "l55") /\ p.err = "") =>
                     /\ p.pc = "done" /\ p.status = 200
                     /\ users'[q.username].loginAttempts = 0]_vars

\* a login has been accepted after one or two failures
C6_Witness ==
    \E r \in Slots :
        /\ Answered(r, "login", 200)
        /\ req[r].user[1].loginAttempts \in {1, 2}
        /\ users[req[r].username].loginAttempts = 0

(* ------------------------------- C7 ------------------------------------ *)
\* C7: a login (well-formed body, no storage fault) for a username that is
\* not in the credential store answers 401 "Invalid credentials" whatever
\* the password, and changes no user record and no session.
C7_UnknownUser ==
    [][\A r \in Slots :
          LET p == req'[r]
          IN  (/\ Starts(r, "login") /\ p.err = ""
               /\ p.username \notin DOMAIN users) =>
                 /\ p.pc = "done" /\ p.status = 401
                 /\ p.message = "Invalid credentials"
                 /\ users' = users /\ sessions' = sessions]_vars

\* a login for an unregistered username has been answered
C7_Witness ==
    \E r \in Slots :
        /\ Answered(r, "login", 401)
        /\ req[r].username \notin DOMAIN users
        /\ req[r].password \in Passwords

(* ------------------------------- C8 ------------------------------------ *)
\* C8: a handler in which a storage operation failed has answered 500 with
\* the generic message.
C8_StoreFaultIs500 ==
    \A r \in Slots :
        req[r].err = "store" =>
            /\ req[r].pc = "done"
            /\ req[r].status = 500
            /\ req[r].message = "Server error"

(* ------------------------------- C9 ------------------------------------ *)
\* C9: no fault leaves a handler uncaught: a handler in which a fault was
\* raised has sent its response.
C9_NoFaultEscapes ==
    \A r \in Slots :
        req[r].err # "" => (req[r].pc = "done" /\ req[r].status # 0)

(* ------------------------------- C10 ----------------------------------- *)
\* the first check of the claim's list that applies to request q, on the
\* stores ss and us
C10Expected(q, ss, us) ==
    IF q.cookie = NoCookie \/ q.cookie \notin DOMAIN ss THEN 401
    ELSE IF \A n \in DOMAIN us :
               us[n].id = ss[q.cookie] => toLowerCase(us[n].role) # "admin"
         THEN 403
    ELSE IF q.username = "" \/ q.password = "" THEN 400
    ELSE IF q.username \notin DOMAIN us THEN 404
    ELSE 200

\* C10 (requests one after another, no storage fault in the handler): the
\* status of reset-password is that of the first check that applies, in the
\* order 401 (no cookie, or session not in the store), 403 (not an admin),
\* 400 (username or newPassword missing), 404 (no such target), else 200;
\* and every step of the handler that does not answer 200, a storage fault
\* included, leaves the user records and the sessions as they were.
C10_ResetCheckOrder ==
    [][\A r \in Slots :
          LET q == req[r]
              p == req'[r]
          IN  /\ (p.kind = "reset" /\ p.pc = "done" /\ p.err = "") =>
                    p.status = C10Expected(p, sessions', users')
              /\ (/\ Starts(r, "reset") \/ (q.kind = "reset" /\ p # q)
                  /\ p.status # 200) =>
                    (users' = users /\ sessions' = sessions)]_vars

\* an admin's reset for a username that is not in the store: 404
C10_Witness ==
    \E r \in Slots :
        /\ Answered(r, "reset", 404)
        /\ req[r].username \notin DOMAIN users
        /\ req[r].password # ""
(* ------------------------------- C11 ----------------------------------- *)
\* the fields of a listed or returned record: those of the stored record
\* but the password
C11Shown(b, u) ==
    /\ DOMAIN b = DOMAIN u \ {"password"}
    /\ \A f \in DOMAIN b : b[f] = u[f]

\* C11: the array with which GET /api/admin/accounts answers 200 holds, for
\* the content of the credential store at the call of getAllUsers, one record
\* for every user whose role is "staff" or "supplier" in any letter case and
\* no other record, and no record of it has a password field.
C11_ListingFilter ==
    [][\A r \in Slots :
          LET p == req'[r]
          IN  (Runs(r, "accounts", "l147") /\ p.status = 200) =>
                /\ \A n \in DOMAIN users :
                      (users[n].role \in {"Staff", "staff", "Supplier", "supplier"})
                          <=> (\E b \in p.body : C11Shown(b, users[n]))
                /\ \A b \in p.body :
                      /\ "password" \notin DOMAIN b
                      /\ \E n \in DOMAIN users : C11Shown(b, users[n])]_vars

\* the list answered to an admin holds an account of role "Staff" and not
\* the admin's own
C11_Witness ==
    \E r \in Slots :
        /\ Answered(r, "accounts", 200)
        /\ \E b \in req[r].body : b.role = "Staff"
        /\ \A b \in req[r].body : b.id # req[r].user[1].id

(* ------------------------------- C12 ----------------------------------- *)
\* C12: a logout in which no storage call fails answers 200 and clears the
\* cookie, whether it carries no cookie, an id that is in the session store
\* or one that is not; afterwards the cookie's id is not in the store, every
\* other session is as it was and so is every user record; so a logout whose
\* id is already absent (a second logout) changes nothing.
C12_LogoutIdempotent ==
    [][\A r \in Slots :
          LET p == req'[r]
          IN  (Starts(r, "logout") /\ p.err = "") =>
                /\ p.pc = "done" /\ p.status = 200
                /\ p.cookieOut = <<NoCookie>>
                /\ p.cookie \notin DOMAIN sessions'
                /\ DOMAIN sessions' = DOMAIN sessions \ {p.cookie}
                /\ \A sid \in DOMAIN sessions' : sessions'[sid] = sessions[sid]
                /\ p.cookie \notin DOMAIN sessions => sessions' = sessions
                /\ users' = users]_vars

\* a logout has been answered 200 for an id that was issued and is gone,
\* while another session is still in the store
C12_Witness ==
    \E r \in Slots :
        /\ Answered(r, "logout", 200)
        /\ req[r].cookie \in 1..(nextSid - 1)
        /\ req[r].cookie \notin DOMAIN sessions
        /\ DOMAIN sessions # {}

(* ------------------------------- C13 ----------------------------------- *)
\* C13: a register request (well-formed body, no storage fault) for a
\* username that is in the store answers 409 and changes no user record; for
\* a new username it answers 201, the store gains that one user, with
\* loginAttempts 0 and no cooldown, every other record is unchanged, and the
\* user object of the response is the new record without its password.
C13_Register ==
    [][\A r \in Slots :
          LET p == req'[r]
          IN  (Starts(r, "register") /\ p.err \notin {"zod", "store"}) =>
                IF p.username \in DOMAIN users
                THEN /\ p.pc = "done" /\ p.status = 409
                     /\ users' = users
                ELSE /\ p.pc = "done" /\ p.status = 201
                     /\ DOMAIN users' = DOMAIN users \cup {p.username}
                     /\ \A n \in DOMAIN users : users'[n] = users[n]
                     /\ users'[p.username].username = p.username
                     /\ users'[p.username].loginAttempts = 0
                     /\ users'[p.username].cooldownUntil = <<>>
                     /\ \A n \in DOMAIN users : users[n].id # users'[p.username].id
                     /\ Cardinality(p.body) = 1
                     /\ \A b \in p.body :
                           /\ "password" \notin DOMAIN b
                           /\ C11Shown(b, users'[p.username])]_vars

\* a second registration of a username has been answered 409
C13_Witness ==
    \E r \in Slots :
        /\ Answered(r, "register", 409)
        /\ req[r].username \in DOMAIN users
        /\ users[req[r].username].id > 1

(* ------------------------------- C14 ----------------------------------- *)
\* no login handler for the user n is in flight
C14NoneInFlight(rq, n) ==
    \A r \in Slots :
        ~(rq[r].kind = "login" /\ rq[r].username = n
          /\ rq[r].pc \notin {"idle", "done", "escaped"})

\* C14: in every interleaving of login handlers, when a login for a user
\* has been answered with no fault in the handler, no login handler for that
\* user is left in flight and the stored loginAttempts is 3 or more, the
\* user's cooldownUntil has been set.
C14_ThreeFailuresLock ==
    [][\A r \in Slots :
          LET p == req'[r]
              n == req'[r].username
          IN  (/\ req[r].kind = "login" \/ Starts(r, "login")
               /\ p.kind = "login" /\ p.pc = "done" /\ req[r].pc # "done"
               /\ p.err = ""
               /\ n \in DOMAIN users'
               /\ C14NoneInFlight(req', n)
               /\ users'[n].loginAttempts >= 3) =>
                 users'[n].cooldownUntil # <<>>]_vars

(* ------------------------------- C15 ----------------------------------- *)
\* C15: in every interleaving of login handlers, the step that stores a
\* session for a user is never taken while that user's stored cooldownUntil
\* is later than the clock.
C15_NoSessionWhileLocked ==
    [][\A r \in Slots :
          (Runs(r, "login", "l55") /\ sessions' # sessions) =>
              ~LockedAt(users[req[r].username], now)]_vars

(* ------------------------------- C16 ----------------------------------- *)
\* C16 (requests one after another, no storage fault in the handler): a
\* login with a wrong password for a user whose cooldown is not in the
\* future calls the increment; with k the loginAttempts stored before the
\* increment, the handler goes on to set cooldownUntil = clock + 5 minutes
\* and answers 429 exactly when k >= 2, and answers 401 and leaves
\* cooldownUntil alone otherwise; a cooldownUntil changes in no other step,
\* so a lock is set only by a failure that at least two recorded failures
\* precede with no reset in between, also when an earlier cooldown has
\* expired.
C16_ThresholdBeforeIncrement ==
    [][/\ \A r \in Slots :
             LET q == req[r]
                 p == req'[r]
             IN  /\ (/\ Starts(r, "login") /\ p.err = ""
                      /\ p.username \in DOMAIN users
                      /\ ~LockedAt(users[p.username], now)
                      /\ p.password # users[p.username].password[2]) =>
                        (p.pc = "l40" /\ p.user = <<users[p.username]>>)
                 /\ (Runs(r, "login", "l40") /\ p.err = "") =>
                        LET k == users[q.username].loginAttempts
                        IN  /\ q.user[1].loginAttempts = k
                            /\ users'[q.username].loginAttempts = k + 1
                            /\ k >= 2 =>
                                  /\ p.pc = "l44"
                                  /\ p.cooldownUntil = <<now + CooldownMs>>
                                  /\ p.status = 0
                            /\ k < 2 =>
                                  /\ p.pc = "done" /\ p.status = 401
                                  /\ p.cooldownUntil = <<>>
                 /\ (Runs(r, "login", "l44") /\ p.err = "") =>
                        /\ p.pc = "done" /\ p.status = 429
                        /\ users'[q.username].cooldownUntil = q.cooldownUntil
       /\ \A n \in DOMAIN users :
             users'[n].cooldownUntil # users[n].cooldownUntil =>
                 \E r \in Slots :
                     /\ Runs(r, "login", "l44") /\ req[r].username = n
                     /\ req'[r].status = 429
                     /\ users[n].loginAttempts >= 3]_vars

\* a wrong password after an expired cooldown, with no successful login in
\* between, has locked the account again
C16_Witness ==
    \E r \in Slots :
        /\ Answered(r, "login", 429)
        /\ req[r].remaining = <<>>
        /\ req[r].user[1].cooldownUntil # <<>>
        /\ req[r].user[1].cooldownUntil[1] <= now
        /\ req[r].user[1].loginAttempts >= 3
        /\ users[req[r].username].cooldownUntil = <<now + CooldownMs>>

(* ------------------------------- C17 ----------------------------------- *)
\* C17 (requests one after another, no storage fault in the handler): a
\* login with the correct password for a user whose cooldownUntil is set
\* and not later than the clock passes the cooldown test and the password
\* check whatever the stored loginAttempts, resets loginAttempts to 0,
\* stores a session for the user and answers 200 with the session's cookie.
C17_UsableAfterCooldown ==
    [][\A r \in Slots :
          LET q == req[r]
              p == req'[r]
          IN  /\ (/\ Starts(r, "login") /\ p.err = ""
                   /\ p.username \in DOMAIN users
                   /\ users[p.username].cooldownUntil # <<>>
                   /\ users[p.username].cooldownUntil[1] <= now
                   /\ p.password = users[p.username].password[2]) =>
                     (p.pc = "l54" /\ p.isValid = <<TRUE>>)
              /\ (/\ Runs(r, "login", "l54") /\ p.err = ""
                   /\ q.user[1].cooldownUntil # <<>>) =>
                     (p.pc = "l55" /\ users'[q.username].loginAttempts = 0)
              /\ (/\ Runs(r, "login", "l55") /\ p.err = ""
                   /\ q.user[1].cooldownUntil # <<>>) =>
                     /\ p.pc = "done" /\ p.status = 200
                     /\ users'[q.username].loginAttempts = 0
                     /\ p.cookieOut # <<>>
                     /\ p.cookieOut[1] \in DOMAIN sessions' \ DOMAIN sessions
                     /\ sessions'[p.cookieOut[1]] = users'[q.username].id]_vars

\* an account that was locked with three failures has logged in after the
\* cooldown's end
C17_Witness ==
    \E r \in Slots :
        /\ Answered(r, "login", 200)
        /\ req[r].user[1].cooldownUntil # <<>>
        /\ req[r].user[1].loginAttempts >= 3
        /\ users[req[r].username].loginAttempts = 0
        /\ req[r].cookieOut # <<>> /\ req[r].cookieOut[1] \in DOMAIN sessions

(* ------------------------------- C18 ----------------------------------- *)
\* C18: in every step, a session id that enters the store was never issued
\* before, enters in the last step of a login that answers 200 and sets the
\* id as cookie, and is bound to the user whose password that login checked;
\* an id that leaves the store leaves in a logout carrying it as cookie; an
\* id that stays keeps its userId; and every id in the store is bound to the
\* id of a user in the credential store.
C18_SessionLifecycle ==
    [][/\ \A sid \in DOMAIN sessions' \ DOMAIN sessions :
             /\ sid \notin 1..(nextSid - 1)
             /\ \E r \in Slots :
                   /\ Runs(r, "login", "l55")
                   /\ req'[r].pc = "done" /\ req'[r].status = 200
                   /\ req'[r].cookieOut = <<sid>>
                   /\ req[r].isValid = <<TRUE>>
                   /\ req[r].username \in DOMAIN users'
                   /\ sessions'[sid] = users'[req[r].username].id
       /\ \A sid \in DOMAIN sessions \ DOMAIN sessions' :
             \E r \in Slots :
                 /\ Starts(r, "logout") /\ req'[r].cookie = sid
                 /\ req'[r].status = 200
       /\ \A sid \in DOMAIN sessions \cap DOMAIN sessions' :
             sessions'[sid] = sessions[sid]
       /\ \A sid \in DOMAIN sessions' :
             Cardinality({n \in DOMAIN users' : users'[n].id = sessions'[sid]}) = 1]_vars

\* a session of a registered user is in the store after an earlier session
\* was created and removed
C18_Witness ==
    /\ \E sid \in DOMAIN sessions :
          \E n \in DOMAIN users : users[n].id = sessions[sid] /\ users[n].id > 1
    /\ \E sid \in 1..(nextSid - 1) : sid \notin DOMAIN sessions

(* ------------------------------- C19 ----------------------------------- *)
\* C19: in a 429 answer of the cooldown branch, remainingSeconds is the
\* ceiling of (cooldownUntil - clock) / 1000, the clock being read when the
\* answer is made, and is at least 1 and at most 300.
C19_RemainingInRange ==
    \A r \in Slots :
        (Answered(r, "login", 429) /\ req[r].remaining # <<>>) =>
            LET s == req[r].remaining[1]
                d == req[r].user[1].cooldownUntil[1] - now
            IN  /\ s * 1000 >= d /\ (s - 1) * 1000 < d
                /\ s >= 1 /\ s <= 300
====
